---- MODULE Spec2Model ----
(***************************************************************************)
(* Model of app.py: a Dash page with an upload widget, a clear button, a   *)
(* multi-select station dropdown, a graph and a download button.  Two      *)
(* server callbacks, update_data_and_plot and download_transformed_data,   *)
(* read the browser-held component properties and write the outputs.       *)
(*                                                                         *)
(* A callback that raises writes no output: Dash answers the request with  *)
(* an error and the component properties stay as they were.  A callback    *)
(* is not re-triggered by the value it writes to its own input.            *)
(***************************************************************************)
EXTENDS Integers, Sequences, FiniteSets, TLC

VARIABLES
    phase,      \* "layout" before the page's initial callbacks, "pending" while an upload waits for its callback, "running" after
    contents,   \* upload-data.contents: NoneVal or the data URL of the uploaded file
    filename,   \* upload-data.filename
    options,    \* station-selector.options
    raw,        \* output-data-table.children
    wide,       \* pivot-table.children
    value,      \* station-selector.value
    fig,        \* line-plot.figure
    last,       \* the most recent callback invocation and how it ended; a download's ret is what download-pivot.data receives
    cleared     \* history: TRUE from a clear click until the next upload

vars == <<phase, contents, filename, options, raw, wide, value, fig, last, cleared>>

----------------------------------------------------------------------------
(* Bounds and input domains *)

\* Most rows of an uploaded file in the page model, and in the pivot sessions.
MaxRows == 2
MaxPivotRows == 3

RequiredColumns == {"Depth", "Station", "EPD"}

UiDepths == {5}
UiStations == {1, 2}
UiEPDs == {10}

PivotDepths == {5, 10}
PivotStations == {1, 2}
PivotEPDs == {10, 20}

Headers ==
    { <<"Depth", "Station", "EPD">>, <<"Depth", "Station">>,
      <<"Depth", "EPD">>, <<"Station", "EPD">> }

Range(s) == { s[i] : i \in 1..Len(s) }

SeqsOfLen(S, lo, hi) == UNION { [1..k -> S] : k \in lo..hi }

\* The records a file with the given header can hold.
RowsOf(header, D, S, E) ==
    { r \in [Range(header) -> D \cup S \cup E] :
        /\ "Depth" \in Range(header) => r["Depth"] \in D
        /\ "Station" \in Range(header) => r["Station"] \in S
        /\ "EPD" \in Range(header) => r["EPD"] \in E }

\* A DataFrame: the header row and the records in file order.
Tables(header, D, S, E, lo, hi) ==
    { [kind |-> "table", header |-> header, rows |-> rs] :
        rs \in SeqsOfLen(RowsOf(header, D, S, E), lo, hi) }

NoneVal == [kind |-> "None"]
Garbage == [kind |-> "garbage"]

List(s) == [kind |-> "list", items |-> s]

\* Filenames, as character sequences.
CsvName == <<"d", ".", "c", "s", "v">>
XlsName == <<"d", ".", "x", "l", "s">>
XlsxName == <<"d", ".", "x", "l", "s", "x">>
TxtName == <<"d", ".", "t", "x", "t">>

UiBodies ==
    UNION { Tables(h, UiDepths, UiStations, UiEPDs, 1, MaxRows) : h \in Headers }
        \cup {Garbage}

SampleBody ==
    [kind |-> "table", header |-> <<"Depth", "Station", "EPD">>,
     rows |-> << [Depth |-> 5, Station |-> 1, EPD |-> 10] >>]

\* The files the user uploads: every body as a .csv, and under each other name
\* one body that is a table and one that is not.
Uploads ==
    { <<CsvName, body>> : body \in UiBodies }
        \cup ({XlsName, XlsxName, TxtName} \X {SampleBody, Garbage})

PivotBodies ==
    Tables(<<"Depth", "Station", "EPD">>, PivotDepths, PivotStations, PivotEPDs,
           0, MaxPivotRows)

\* The data URL dcc.Upload puts in contents: "<content type>,<base64 payload>".
DataUrl(body) == [kind |-> "dataurl", content_type |-> "data:;base64", content_string |-> body]

----------------------------------------------------------------------------
(* parse_contents *)

EndsWith(s, suffix) ==
    /\ Len(s) >= Len(suffix)
    /\ SubSeq(s, Len(s) - Len(suffix) + 1, Len(s)) = suffix

Returned(v) == [raised |-> FALSE, exc |-> "", data |-> v]
Raised(e) == [raised |-> TRUE, exc |-> e, data |-> NoneVal]

\* base64.b64decode of the payload part of the data URL
Decoded(c) == c.content_string

\* Variant: a name with no recognised extension is read as CSV.
ParseContentsDefaultCsv(c, fn) ==
    LET decoded == Decoded(c) IN
    IF EndsWith(fn, <<".", "x", "l", "s">>) \/ EndsWith(fn, <<".", "x", "l", "s", "x">>)
    THEN IF decoded = Garbage THEN Raised("ValueError") ELSE Returned(decoded)
    ELSE IF decoded = Garbage THEN Raised("UnicodeDecodeError") ELSE Returned(decoded)

ParseContents(c, fn) ==
    LET decoded == Decoded(c) IN
    IF EndsWith(fn, <<".", "c", "s", "v">>)
    THEN IF decoded = Garbage THEN Raised("UnicodeDecodeError") ELSE Returned(decoded)
    ELSE IF EndsWith(fn, <<".", "x", "l", "s">>) \/ EndsWith(fn, <<".", "x", "l", "s", "x">>)
    THEN IF decoded = Garbage THEN Raised("ValueError") ELSE Returned(decoded)
    ELSE Returned(NoneVal)

----------------------------------------------------------------------------
(* DataFrame.pivot, sort_index, columns.map(str) *)

HasRequiredColumns(data) == \A col \in RequiredColumns : col \in Range(data.header)

RECURSIVE SortSet(_)
SortSet(S) ==
    IF S = {} THEN <<>>
    ELSE LET m == CHOOSE x \in S : \A y \in S : x <= y
         IN <<m>> \o SortSet(S \ {m})

HasDuplicateKey(data) ==
    \E i, j \in 1..Len(data.rows) :
        /\ i < j
        /\ data.rows[i]["Depth"] = data.rows[j]["Depth"]
        /\ data.rows[i]["Station"] = data.rows[j]["Station"]

Missing == <<>>
Present(e) == <<e>>

\* Variant: a (d, s) without a record is filled with 0 (fill_value=0).
CellOfFillZero(data, d, s) ==
    IF \E i \in 1..Len(data.rows) :
           data.rows[i]["Depth"] = d /\ data.rows[i]["Station"] = s
    THEN LET i == CHOOSE k \in 1..Len(data.rows) :
                     data.rows[k]["Depth"] = d /\ data.rows[k]["Station"] = s
         IN Present(data.rows[i]["EPD"])
    ELSE Present(0)

\* The cell of the reshaped frame at (d, s): the EPD of the record with that key.
CellOf(data, d, s) ==
    IF \E i \in 1..Len(data.rows) :
           data.rows[i]["Depth"] = d /\ data.rows[i]["Station"] = s
    THEN LET i == CHOOSE k \in 1..Len(data.rows) :
                     data.rows[k]["Depth"] = d /\ data.rows[k]["Station"] = s
         IN Present(data.rows[i]["EPD"])
    ELSE Missing

\* data.pivot(index='Depth', columns='Station', values='EPD')
Pivot(data) ==
    IF ~HasRequiredColumns(data) THEN Raised("KeyError")
    ELSE IF HasDuplicateKey(data) THEN Raised("ValueError")
    ELSE LET depths == { data.rows[i]["Depth"] : i \in 1..Len(data.rows) }
             stations == { data.rows[i]["Station"] : i \in 1..Len(data.rows) }
         IN Returned([index |-> SortSet(depths),
                      columns |-> SortSet(stations),
                      cells |-> [k \in depths \X stations |-> CellOf(data, k[1], k[2])]])

\* pivot_table.sort_index(ascending=True)
SortIndex(pt) ==
    [pt EXCEPT !.index = SortSet(Range(pt.index))]

\* pivot_table.columns = pivot_table.columns.map(str)
MapStr(pt) ==
    LET names == [i \in 1..Len(pt.columns) |-> ToString(pt.columns[i])]
        orig(name) == pt.columns[CHOOSE i \in 1..Len(names) : names[i] = name]
    IN [index |-> pt.index,
        columns |-> names,
        cells |-> [k \in Range(pt.index) \X Range(names) |-> pt.cells[<<k[1], orig(k[2])>>]]]

----------------------------------------------------------------------------
(* Views and figures *)

Div(text) == [kind |-> "Div", text |-> text]

\* dash_table.DataTable over data.to_dict('records') with one column per header name
RawDataTable(data) == [kind |-> "DataTable", data |-> data.rows, columns |-> data.header]

\* dash_table.DataTable over pivot_table.reset_index(): 'Depth' followed by the stations
TransformedDataTable(pt) ==
    [kind |-> "DataTable",
     data |-> [i \in 1..Len(pt.index) |->
                 [Depth |-> pt.index[i],
                  cells |-> [c \in Range(pt.columns) |-> pt.cells[<<pt.index[i], c>>]]]],
     columns |-> <<"Depth">> \o pt.columns]

\* Variant: the first column is skipped, as if it were the Depth column.
StationOptionsSkipFirst(pt) ==
    [i \in 1..(Len(pt.columns) - 1) |->
        [label |-> pt.columns[i + 1], value |-> pt.columns[i + 1]]]

StationOptions(pt) ==
    [i \in 1..Len(pt.columns) |-> [label |-> pt.columns[i], value |-> pt.columns[i]]]

\* go.Figure()
EmptyFigure == [traces |-> <<>>, layout |-> "default"]

Scatter(pt, station) ==
    [name |-> <<"Station", station>>,
     x |-> [i \in 1..Len(pt.index) |-> pt.cells[<<pt.index[i], station>>]],
     y |-> pt.index]

\* One trace per selected station that is a column of the pivot, in selection order.
Traces(pt, selected) ==
    LET InPivot(station) == station \in Range(pt.columns)
        kept == SelectSeq(selected, InPivot)
    IN [i \in 1..Len(kept) |-> Scatter(pt, kept[i])]

Truthy(sel) == sel # NoneVal /\ sel.items # <<>>

----------------------------------------------------------------------------
(* update_data_and_plot *)

NoFileMsg == "No file uploaded."
NoFileYetMsg == "No file uploaded yet."
UnsupportedMsg == "Unsupported file type. Please upload a CSV or Excel file."
MissingColumnsMsg == "File must contain 'Depth', 'Station', and 'EPD' columns."
NoTransformedMsg == "No transformed data."

Outputs(o, r, w, v, f) == [options |-> o, raw |-> r, wide |-> w, value |-> v, fig |-> f]

EmptyOutputs(text) == Outputs(<<>>, Div(text), Div(NoTransformedMsg), NoneVal, EmptyFigure)

CbReturn(steps, ret) == [raised |-> FALSE, exc |-> "", steps |-> steps, ret |-> ret]
CbRaise(steps, exc) == [raised |-> TRUE, exc |-> exc, steps |-> steps, ret |-> NoneVal]

\* The value returned to station-selector.value when stations are selected.
SelectedValue(pt, selected) == selected

\* Variant: without a selection every station is plotted.
PlotOutputsAllUnselected(data, pt, selected) ==
    IF Truthy(selected)
    THEN Outputs(StationOptions(pt), RawDataTable(data), TransformedDataTable(pt),
                 SelectedValue(pt, selected),
                 [traces |-> Traces(pt, selected.items), layout |-> "styled"])
    ELSE Outputs(StationOptions(pt), RawDataTable(data), TransformedDataTable(pt),
                 NoneVal, [traces |-> Traces(pt, pt.columns), layout |-> "styled"])

\* The part of the callback after the required-columns check.
PlotOutputs(data, pt, selected) ==
    IF Truthy(selected)
    THEN Outputs(StationOptions(pt), RawDataTable(data), TransformedDataTable(pt),
                 SelectedValue(pt, selected),
                 [traces |-> Traces(pt, selected.items), layout |-> "styled"])
    ELSE Outputs(StationOptions(pt), RawDataTable(data), TransformedDataTable(pt),
                 NoneVal, EmptyFigure)

\* Variant: the whole prop_id is compared, without the split.
ClearTriggeredUnsplit(trigger) == trigger = "clear-data.n_clicks"

\* ctx.triggered[0]['prop_id'].split('.')[0] == 'clear-data'
ClearTriggered(trigger) == trigger = "clear-data"

UpdateDataAndPlot(trigger, c, selected, fn) ==
    IF ClearTriggered(trigger) THEN CbReturn(<<>>, EmptyOutputs(NoFileMsg))
    ELSE IF c = NoneVal THEN CbReturn(<<>>, EmptyOutputs(NoFileYetMsg))
    ELSE LET p == ParseContents(c, fn) IN
         IF p.raised THEN CbRaise(<<"parse">>, p.exc)
         ELSE IF p.data = NoneVal THEN CbReturn(<<"parse">>, EmptyOutputs(UnsupportedMsg))
         ELSE IF ~HasRequiredColumns(p.data)
         THEN CbReturn(<<"parse", "validate">>, EmptyOutputs(MissingColumnsMsg))
         ELSE LET pv == Pivot(p.data) IN
              IF pv.raised THEN CbRaise(<<"parse", "validate", "pivot">>, pv.exc)
              ELSE CbReturn(<<"parse", "validate", "pivot">>,
                            PlotOutputs(p.data, MapStr(SortIndex(pv.data)), selected))

----------------------------------------------------------------------------
(* download_transformed_data *)

\* dcc.send_bytes of the workbook written by pivot_table.to_excel
SendBytes(pt) ==
    [kind |-> "download", filename |-> "transformed_data.xlsx",
     sheet_name |-> "Pivot Table", table |-> pt]

DownloadTransformedData(n_clicks, c, fn) ==
    IF n_clicks # 0 /\ c # NoneVal
    THEN LET p == ParseContents(c, fn) IN
         IF p.raised THEN CbRaise(<<"parse">>, p.exc)
         ELSE IF p.data = NoneVal THEN CbReturn(<<"parse">>, NoneVal)
         ELSE LET pv == Pivot(p.data) IN
              IF pv.raised THEN CbRaise(<<"parse", "pivot">>, pv.exc)
              ELSE CbReturn(<<"parse", "pivot", "export">>, SendBytes(MapStr(pv.data)))
    ELSE CbReturn(<<>>, NoneVal)

----------------------------------------------------------------------------
(* The page: events and the callbacks they fire *)

Invocation(cb, trigger, sel, res) ==
    [cb |-> cb, trigger |-> trigger, selected |-> sel, raised |-> res.raised,
     exc |-> res.exc, steps |-> res.steps, ret |-> res.ret]

NoInvocation == [cb |-> "none", trigger |-> "", selected |-> NoneVal, raised |-> FALSE,
                 exc |-> "", steps |-> <<>>, ret |-> NoneVal]

LayoutState ==
    /\ options = <<>>
    /\ raw = NoneVal
    /\ wide = NoneVal
    /\ value = NoneVal
    /\ fig = NoneVal
    /\ last = NoInvocation
    /\ cleared = FALSE

Init ==
    /\ phase = "layout"
    /\ contents = NoneVal
    /\ filename = NoneVal
    /\ LayoutState

\* Writes the callback's outputs to the components, or leaves them when it raised.
\* sel is the selection the browser holds when the callback is fired.
ApplyUpdate(trigger, c, sel, fn) ==
    LET res == UpdateDataAndPlot(trigger, c, sel, fn) IN
    /\ last' = Invocation("update", trigger, sel, res)
    /\ IF res.raised
       THEN /\ value' = sel
            /\ UNCHANGED <<options, raw, wide, fig>>
       ELSE /\ options' = res.ret.options
            /\ raw' = res.ret.raw
            /\ wide' = res.ret.wide
            /\ value' = res.ret.value
            /\ fig' = res.ret.fig

\* Dash calls every callback once when the page is first rendered.
PageLoad ==
    /\ phase = "layout"
    /\ phase' = "running"
    /\ ApplyUpdate("", contents, value, filename)
    /\ DownloadTransformedData(0, contents, filename) = CbReturn(<<>>, NoneVal)
    /\ UNCHANGED <<contents, filename, cleared>>

\* The user picks a file in upload-data; the new contents fire update_data_and_plot.
Upload(fn, body) ==
    /\ phase = "running"
    /\ contents' = DataUrl(body)
    /\ filename' = fn
    /\ cleared' = FALSE
    /\ ApplyUpdate("upload-data", DataUrl(body), value, fn)
    /\ UNCHANGED phase

\* The user clicks clear-data.
Clear ==
    /\ phase = "running"
    /\ cleared' = TRUE
    /\ ApplyUpdate("clear-data", contents, value, filename)
    /\ UNCHANGED <<phase, contents, filename>>

Items(v) == IF v = NoneVal THEN <<>> ELSE v.items

RemoveAt(s, i) == SubSeq(s, 1, i - 1) \o SubSeq(s, i + 1, Len(s))

\* The selections one interaction with the dropdown can produce: one more of the
\* offered stations, or one selected station removed.
NextSelections ==
    { Append(Items(value), options[i].value) :
        i \in { j \in 1..Len(options) : options[j].value \notin Range(Items(value)) } }
    \cup { RemoveAt(Items(value), i) : i \in 1..Len(Items(value)) }

SelectStation(sel) ==
    /\ phase = "running"
    /\ ApplyUpdate("station-selector", contents, List(sel), filename)
    /\ UNCHANGED <<phase, contents, filename, cleared>>

\* The user clicks download-button.
Download ==
    /\ phase = "running"
    /\ LET res == DownloadTransformedData(1, contents, filename) IN
       last' = Invocation("download", "download-button", NoneVal, res)
    /\ UNCHANGED <<phase, contents, filename, options, raw, wide, value, fig, cleared>>

Next ==
    \/ PageLoad
    \/ \E u \in Uploads : Upload(u[1], u[2])
    \/ Clear
    \/ \E sel \in NextSelections : SelectStation(sel)
    \/ Download

Spec == Init /\ [][Next]_vars

----------------------------------------------------------------------------
(* One session per file of the larger family: the file is already in the   *)
(* upload widget and its callback is about to run.                         *)

InitPivot ==
    /\ phase = "pending"
    /\ \E body \in PivotBodies : contents = DataUrl(body)
    /\ filename = CsvName
    /\ LayoutState

\* The callback fired by the upload.
Render ==
    /\ phase = "pending"
    /\ phase' = "running"
    /\ ApplyUpdate("upload-data", contents, value, filename)
    /\ UNCHANGED <<contents, filename, cleared>>

NextPivot ==
    \/ Render
    \/ \E sel \in NextSelections : SelectStation(sel)
    \/ Download

SpecPivot == InitPivot /\ [][NextPivot]_vars

----------------------------------------------------------------------------
(* Properties *)

\* The DataFrame the current upload parses to, when it parses to one.
Parsed == ParseContents(contents, filename)
HasData == contents # NoneVal /\ ~Parsed.raised /\ Parsed.data # NoneVal
Data == Parsed.data

DepthsOf(data) == { data.rows[i]["Depth"] : i \in 1..Len(data.rows) }
StationsOf(data) == { data.rows[i]["Station"] : i \in 1..Len(data.rows) }
KeysOf(data) == { <<data.rows[i]["Depth"], data.rows[i]["Station"]>> : i \in 1..Len(data.rows) }

WellFormed(data) == HasRequiredColumns(data) /\ ~HasDuplicateKey(data)

UpdateReturned == last.cb = "update" /\ ~last.raised

\* The wide view w has one row per depth of data and one column per station,
\* each record's EPD at its cell and the missing marker everywhere else.
IsPivotOf(w, data) ==
    /\ w.kind = "DataTable"
    /\ Len(w.data) = Cardinality(DepthsOf(data))
    /\ { w.data[i].Depth : i \in 1..Len(w.data) } = DepthsOf(data)
    /\ Len(w.columns) = 1 + Cardinality(StationsOf(data))
    /\ w.columns[1] = "Depth"
    /\ { w.columns[j] : j \in 2..Len(w.columns) } = { ToString(s) : s \in StationsOf(data) }
    /\ \A i \in 1..Len(w.data) :
         /\ DOMAIN w.data[i].cells = { ToString(s) : s \in StationsOf(data) }
         /\ \A s \in StationsOf(data) :
              LET cell == w.data[i].cells[ToString(s)]
                  d == w.data[i].Depth
              IN /\ \A k \in 1..Len(data.rows) :
                        (data.rows[k]["Depth"] = d /\ data.rows[k]["Station"] = s)
                            => cell = Present(data.rows[k]["EPD"])
                 /\ <<d, s>> \notin KeysOf(data) => cell = Missing

\* C1: for a Dataset with the three columns and no repeated (Depth, Station) pair,
\* the pivot shown by update_data_and_plot has one row per distinct Depth, one
\* column per distinct Station named by its string form, each record's EPD at
\* its cell and the missing marker in every cell without a record.
C1_PivotShape ==
    (UpdateReturned /\ last.trigger # "clear-data" /\ HasData /\ WellFormed(Data))
        => IsPivotOf(wide, Data)

C1_Witness ==
    /\ UpdateReturned /\ HasData /\ WellFormed(Data)
    /\ Cardinality(DepthsOf(Data)) = 2
    /\ Cardinality(StationsOf(Data)) = 2
    /\ Len(Data.rows) = 3
    /\ wide.kind = "DataTable"
    /\ \E i \in 1..Len(wide.data) : \E c \in DOMAIN wide.data[i].cells :
          wide.data[i].cells[c] = Missing

Before(steps, a, b) ==
    \E i, j \in 1..Len(steps) : i < j /\ steps[i] = a /\ steps[j] = b

\* C2: on every path that pivots a Dataset, in update_data_and_plot and in
\* download_transformed_data, the required-columns check runs before the pivot,
\* and a Dataset missing a required column never reaches the pivot.
C2_ValidateBeforePivot ==
    "pivot" \in Range(last.steps)
        => /\ Before(last.steps, "validate", "pivot")
           /\ HasRequiredColumns(Data)

IsEmptyUi ==
    /\ options = <<>>
    /\ raw.kind = "Div"
    /\ wide.kind = "Div"
    /\ value = NoneVal
    /\ fig.traces = <<>>

\* C3: when the uploaded Dataset repeats a (Depth, Station) pair, the callback
\* that pivots it returns instead of raising, and after update_data_and_plot
\* the UI is Empty with an error message.
C3_DuplicateHandled ==
    (last.cb # "none" /\ HasData /\ HasRequiredColumns(Data) /\ HasDuplicateKey(Data)
        /\ "parse" \in Range(last.steps))
        => /\ ~last.raised
           /\ last.cb = "update" => IsEmptyUi

\* C4: a callback run triggered by the clear-data button returns, whatever the
\* upload contents, filename and selection are, no station options, the
\* 'No file uploaded.' raw view, the 'No transformed data.' wide view, a null
\* selection and a figure without traces.
C4_ClearEmpties ==
    (last.cb = "update" /\ last.trigger = "clear-data")
        => /\ ~last.raised
           /\ last.ret = Outputs(<<>>, Div(NoFileMsg), Div(NoTransformedMsg), NoneVal, EmptyFigure)
           /\ options = <<>>
           /\ raw = Div(NoFileMsg)
           /\ wide = Div(NoTransformedMsg)
           /\ value = NoneVal
           /\ fig.traces = <<>>

C4_Witness ==
    /\ last.cb = "update" /\ last.trigger = "clear-data"
    /\ Truthy(last.selected)
    /\ HasData /\ WellFormed(Data) /\ Len(Data.rows) > 0
    /\ raw = Div(NoFileMsg)

\* C5: after a clear, until the next upload, no callback output is derived from
\* the Dataset that was cleared: no table view, no plot trace, no exported file.
C5_ClearedDatasetUnused ==
    cleared
        => /\ raw.kind # "DataTable"
           /\ wide.kind # "DataTable"
           /\ fig.traces = <<>>
           /\ ~(last.cb = "download" /\ ~last.raised /\ last.ret # NoneVal)

OptionValues(o) == { o[i].value : i \in 1..Len(o) }

AllProduced(o) ==
    /\ HasData /\ WellFormed(Data)
    /\ "pivot" \in Range(last.steps)
    /\ o.raw.kind = "DataTable"
    /\ o.raw.data = Data.rows
    /\ IsPivotOf(o.wide, Data)
    /\ OptionValues(o.options) = { ToString(s) : s \in StationsOf(Data) }
    /\ Len(o.options) = Cardinality(StationsOf(Data))

NoneProduced(o) ==
    /\ o.options = <<>>
    /\ o.raw.kind = "Div"
    /\ o.wide.kind = "Div"
    /\ o.value = NoneVal
    /\ o.fig.traces = <<>>

\* C6: every invocation of update_data_and_plot that returns either ran parse,
\* validate and pivot successfully and returns station options, raw table and
\* wide table all built from the uploaded Dataset, or returns none of them:
\* no options, two messages, a null selection and a figure without traces.
C6_NoPartialSuccess ==
    UpdateReturned
        => /\ AllProduced(last.ret) \/ NoneProduced(last.ret)
           /\ Outputs(options, raw, wide, value, fig) = last.ret

C6_Witness ==
    /\ UpdateReturned
    /\ last.trigger = "upload-data"
    /\ AllProduced(last.ret)
    /\ Len(options) = 2

ParseFailed == contents # NoneVal /\ (Parsed.raised \/ Parsed.data = NoneVal)
ValidationFailed == HasData /\ ~HasRequiredColumns(Data)

\* C7: every upload whose parse fails (unsupported extension or content that
\* does not parse) or whose validation fails leaves the UI Empty with an error
\* message, and the 'no file', 'unsupported format' and 'missing columns'
\* messages are pairwise distinct.
C7_FailedUploadEmpties ==
    /\ (last.cb = "update" /\ last.trigger = "upload-data"
            /\ (ParseFailed \/ ValidationFailed))
         => /\ ~last.raised
            /\ IsEmptyUi
            /\ raw.text \in {UnsupportedMsg, MissingColumnsMsg}
    /\ Cardinality({NoFileMsg, NoFileYetMsg, UnsupportedMsg, MissingColumnsMsg}) = 4

SupportedName(fn) ==
    \/ EndsWith(fn, <<".", "c", "s", "v">>)
    \/ EndsWith(fn, <<".", "x", "l", "s">>)
    \/ EndsWith(fn, <<".", "x", "l", "s", "x">>)

UploadStep == \E u \in Uploads : Upload(u[1], u[2])

\* C8 as stated: an upload under an unsupported filename leaves the station
\* options, raw view, wide view, selection and plot as they were.
C8_PriorStateUntouched ==
    [][(UploadStep /\ ~SupportedName(filename'))
          => UNCHANGED <<options, raw, wide, value, fig>>]_vars

\* C8, amended: an upload whose filename does not end in .csv, .xls or .xlsx
\* produces no Dataset (neither validation nor pivot runs) and puts the UI in
\* the Empty state with the unsupported-file message, replacing what was shown.
C8_UnsupportedEmpties ==
    (last.cb = "update" /\ last.trigger = "upload-data" /\ ~SupportedName(filename))
        => /\ ~last.raised
           /\ last.steps = <<"parse">>
           /\ Outputs(options, raw, wide, value, fig) = EmptyOutputs(UnsupportedMsg)

C8_Witness ==
    /\ last.cb = "update" /\ last.trigger = "upload-data"
    /\ filename = TxtName
    /\ Truthy(last.selected)
    /\ Decoded(contents) = SampleBody
    /\ raw = Div(UnsupportedMsg)

\* C9: after a successful parse, validate and pivot, a station-selection event
\* with an empty or null selection gives a figure without traces while the
\* station options, the raw table and the wide table are those of the Dataset.
C9_EmptySelectionKeepsTables ==
    (UpdateReturned /\ last.trigger = "station-selector" /\ ~Truthy(last.selected)
        /\ HasData /\ WellFormed(Data))
        => /\ fig.traces = <<>>
           /\ raw.kind = "DataTable"
           /\ raw.data = Data.rows
           /\ IsPivotOf(wide, Data)
           /\ OptionValues(options) = { ToString(s) : s \in StationsOf(Data) }

C9_Witness ==
    /\ UpdateReturned /\ last.trigger = "station-selector"
    /\ last.selected = List(<<>>)
    /\ HasData /\ WellFormed(Data)
    /\ Len(options) = 2
    /\ raw.kind = "DataTable"

TraceNames(f) == { f.traces[i].name[2] : i \in 1..Len(f.traces) }

\* C10: after every return of update_data_and_plot every station in the
\* returned station-selector value is one of the returned station options and
\* has a trace in the returned figure.
C10_SelectionWithinOptions ==
    UpdateReturned
        => \A s \in Range(Items(last.ret.value)) :
              /\ s \in OptionValues(last.ret.options)
              /\ s \in TraceNames(last.ret.fig)

====
